---------------------------- MODULE Spec2Model ----------------------------
(***************************************************************************)
(* State-machine model of src/app/page.tsx (HomePage): the document        *)
(* registry (simulated uploads, two-step delete) and the conversation      *)
(* (query submission, reply decoding, defaulting and rendering).           *)
(*                                                                         *)
(* React state is modelled by one variable per useState cell.  Each event  *)
(* handler, timer callback and promise continuation is one action: the     *)
(* page runs on a single cooperative thread, so a handler runs to its next *)
(* await without interleaving.  Date.now() is the variable now.            *)
(***************************************************************************)
EXTENDS Integers, Sequences, FiniteSets, TLC

VARIABLES
    documents,       \* useState<Document[]>            (line 52)
    chatMessages,    \* useState<ChatMessage[]>         (line 53)
    query,           \* useState('')                    (line 54)
    loading,         \* useState(false)                 (line 55)
    uploadingFiles,  \* useState<{[key]: number}>       (line 57)
    deleteConfirm,   \* useState<string | null>         (line 59)
    invocations,     \* the running handleFileSelect calls, one record each
    inflight,        \* the fetch('/api/agent') calls not yet settled
    now,             \* the reading of Date.now()
    issued,          \* history: number of fetch calls made so far
    delivered,       \* history: the replies delivered, oldest first
    lastSubmit,      \* history: what the last submit event did
    removed          \* history: number of documents removed so far

vars == << documents, chatMessages, query, loading, uploadingFiles,
           deleteConfirm, invocations, inflight, now, issued, delivered,
           lastSubmit, removed >>

docVars  == << documents, uploadingFiles, deleteConfirm, invocations, removed >>
chatVars == << chatMessages, query, loading, inflight, issued, delivered,
               lastSubmit >>

-----------------------------------------------------------------------------
(* Bounds of the model *)

MaxSelections == 2      \* handleFileSelect invocations
MaxBatch == 2           \* files in one FileList
MaxIntervals == 8       \* timer periods (500 ms) the clock may advance by
MaxJitter == 1          \* single milliseconds the clock may advance within a period
MaxQueries == 2         \* replies delivered before the conversation stops taking queries
MaxReplyQueries == 1    \* the same, when every reply shape is enumerated
MaxPageSelections == 2  \* handleFileSelect invocations when the whole page runs
MaxPageQueries == 2     \* replies delivered when the whole page runs
MaxPageIntervals == 5   \* timer periods the clock may advance by when the whole page runs

(* Program constants *)

ProcessingMs == 2000    \* setTimeout(resolve, 2000)
IntervalMs == 500       \* setInterval(..., 500)
ProgressCap == 90       \* if (current >= 90)
RandomScale == 40       \* Math.random() * 40
MinPages == 10          \* Math.floor(Math.random() * 100) + 10
PageSpan == 100

PdfType == "application/pdf"

-----------------------------------------------------------------------------
(* Sequence helpers *)

Range(s) == { s[i] : i \in DOMAIN s }

RECURSIVE SelectSeqBy(_, _)
\* Array.prototype.filter with the predicate given as the set of kept elements
SelectSeqBy(s, keep) ==
    IF s = << >> THEN << >>
    ELSE IF Head(s) \in keep
         THEN << Head(s) >> \o SelectSeqBy(Tail(s), keep)
         ELSE SelectSeqBy(Tail(s), keep)

SeqsUpTo(S, n) == UNION { [1..k -> S] : k \in 1..n }

-----------------------------------------------------------------------------
(* Object-as-map helpers: { ...prev, [k]: v } and delete updated[k] *)

SetKey(f, k, v) == [ x \in (DOMAIN f) \cup {k} |-> IF x = k THEN v ELSE f[x] ]
RemoveKey(f, k) == [ x \in (DOMAIN f) \ {k} |-> f[x] ]
EmptyMap == [ x \in {} |-> 0 ]

-----------------------------------------------------------------------------
(* Document registry *)

\* The File objects a user may pick: name, declared media type, byte size.
Files ==
    { [name |-> "a.pdf", type |-> PdfType, size |-> 1048576],
      [name |-> "notes.txt", type |-> "text/plain", size |-> 512],
      [name |-> "scan.pdf", type |-> "application/octet-stream", size |-> 2048] }

FileLists == SeqsUpTo(Files, MaxBatch)

\* `${file.name}-${Date.now()}`: the name, a dash, the decimal clock reading.
\* The digits after the last dash are the reading, so the string determines
\* the pair and the pair the string.
FileId(name, t) == [name |-> name, ts |-> t]

NoId == [name |-> "", ts |-> 0]

\* Math.random() * 40 lies in [0, 40): the integer readings the model draws
RandomIncrements == {0, RandomScale - 1}

\* Math.floor(Math.random() * 100) + 10 lies in 10..109: the two extremes
PageChoices == {MinPages, MinPages + PageSpan - 1}

\* new Date().toLocaleDateString(): the calendar day of the reading
LocaleDate(t) == t \div 86400000

\* the interval fires every 500 ms and the timeout after 2000 ms, so at most
\* 2000 / 500 callbacks run before the continuation clears the interval
MaxTicks == ProcessingMs \div IntervalMs

\* the n-th callback of an interval started at t runs no earlier than
\* t + n * 500; a timer may run late, never early
TickDue(t, n) == t + n * IntervalMs

\* an invocation that has left its for loop
Finished == [files |-> << >>, fileId |-> NoId, timer |-> FALSE, ticks |-> 0]

\* one iteration of the for loop up to its await: fileId, progress entry at
\* 0, interval started
BeginUpload(files, uf) ==
    IF files = << >>
    THEN [inv |-> Finished, uf |-> uf]
    ELSE LET fileId == FileId(Head(files).name, now)
         IN  [inv |-> [files |-> files, fileId |-> fileId,
                       timer |-> TRUE, ticks |-> 0],
              uf  |-> SetKey(uf, fileId, 0)]

\* files.filter(file => file.type === 'application/pdf')
SelectedFiles_Unfiltered(files) == files
SelectedFiles(files) ==
    SelectSeqBy(files, { f \in Files : f.type = PdfType })

HandleFileSelect(files) ==
    /\ Len(invocations) < MaxSelections
    /\ LET r == BeginUpload(SelectedFiles(files), uploadingFiles)
       IN  /\ invocations' = Append(invocations, r.inv)
           /\ uploadingFiles' = r.uf
    /\ UNCHANGED << documents, deleteConfirm, removed, now >>
    /\ UNCHANGED chatVars

\* the updater of the interval callback: prev[fileId] || 0, the >= 90 test
ProgressUpdate(uf, fileId, inc) ==
    LET current == IF fileId \in DOMAIN uf THEN uf[fileId] ELSE 0
    IN  IF current >= ProgressCap
        THEN [uf |-> uf, timer |-> FALSE]
        ELSE [uf |-> SetKey(uf, fileId, current + inc), timer |-> TRUE]

ProgressTick(i, inc) ==
    /\ invocations[i].timer
    /\ invocations[i].ticks < MaxTicks
    /\ now >= TickDue(invocations[i].fileId.ts, invocations[i].ticks + 1)
    /\ LET r == ProgressUpdate(uploadingFiles, invocations[i].fileId, inc)
       IN  /\ uploadingFiles' = r.uf
           /\ invocations' =
                [invocations EXCEPT ![i].timer = r.timer,
                                    ![i].ticks = @ + 1]
    /\ UNCHANGED << documents, deleteConfirm, removed, now >>
    /\ UNCHANGED chatVars

NewDoc(fileId, file, pages) ==
    [id |-> fileId, name |-> file.name, size |-> file.size,
     pages |-> pages, uploadDate |-> LocaleDate(now)]

\* setDocuments(prev => [newDoc, ...prev])
InsertDocument(docs, d) == << d >> \o docs

\* the continuation after the await: the interval is cleared, the document
\* inserted, the progress entry deleted, and the loop goes on to the next file
CompleteUpload(i, pages) ==
    /\ invocations[i].files # << >>
    /\ now >= invocations[i].fileId.ts + ProcessingMs
    /\ LET inv == invocations[i]
           doc == NewDoc(inv.fileId, Head(inv.files), pages)
           r   == BeginUpload(Tail(inv.files),
                              RemoveKey(uploadingFiles, inv.fileId))
       IN  /\ documents' = InsertDocument(documents, doc)
           /\ uploadingFiles' = r.uf
           /\ invocations' = [invocations EXCEPT ![i] = r.inv]
    /\ UNCHANGED << deleteConfirm, removed, now >>
    /\ UNCHANGED chatVars

\* prev.filter(doc => doc.id !== docId)
WithoutId(docs, docId) ==
    SelectSeqBy(docs, { d \in Range(docs) : d.id # docId })

\* onClick={() => setDeleteConfirm(doc.id)} on a listed document
RequestDelete_Immediate(k) ==
    /\ documents' = WithoutId(documents, documents[k].id)
    /\ removed' = removed + Len(documents) - Len(documents')
    /\ UNCHANGED << deleteConfirm, uploadingFiles, invocations, now >>
    /\ UNCHANGED chatVars
RequestDelete(k) ==
    /\ deleteConfirm' = documents[k].id
    /\ UNCHANGED << documents, uploadingFiles, invocations, removed, now >>
    /\ UNCHANGED chatVars

\* AlertDialogAction: deleteConfirm && handleDeleteDocument(deleteConfirm)
HandleDeleteDocument ==
    /\ deleteConfirm # NoId
    /\ documents' = WithoutId(documents, deleteConfirm)
    /\ deleteConfirm' = NoId
    /\ removed' = removed + Len(documents) - Len(documents')
    /\ UNCHANGED << uploadingFiles, invocations, now >>
    /\ UNCHANGED chatVars

\* AlertDialogCancel / onOpenChange={() => setDeleteConfirm(null)}
CancelDelete ==
    /\ deleteConfirm # NoId
    /\ deleteConfirm' = NoId
    /\ UNCHANGED << documents, uploadingFiles, invocations, removed, now >>
    /\ UNCHANGED chatVars

-----------------------------------------------------------------------------
(* JavaScript values, as far as the reply handling looks at them.  A number *)
(* is held in thousandths, so that 0.82 is Num(820) and 7 is Num(7000).     *)

Undefined == [t |-> "undefined"]
Null      == [t |-> "null"]
Bool(b)   == [t |-> "boolean", b |-> b]
Num(n)    == [t |-> "number", n |-> n]
Str(s)    == [t |-> "string", s |-> s]
Arr(a)    == [t |-> "array", a |-> a]
Obj(o)    == [t |-> "object", o |-> o]

IsNullish(v) == v.t \in {"undefined", "null"}

\* ToBoolean
Truthy(v) ==
    CASE v.t = "boolean" -> v.b
      [] v.t = "number"  -> v.n # 0
      [] v.t = "string"  -> v.s # ""
      [] v.t \in {"undefined", "null"} -> FALSE
      [] OTHER -> TRUE

\* v.k for a v that is not null or undefined (those throw a TypeError, which
\* the callers test for): an own property of an object, undefined otherwise
Get(v, k) ==
    IF v.t = "object" /\ k \in DOMAIN v.o THEN v.o[k] ELSE Undefined

\* v?.k
OptGet(v, k) == IF IsNullish(v) THEN Undefined ELSE Get(v, k)

\* a ?? b
Coalesce_Or(a, b) == IF Truthy(a) THEN a ELSE b
Coalesce(a, b) == IF IsNullish(a) THEN b ELSE a

\* v.length of an array (the model sends arrays or nothing where the page
\* reads a length)
Length(v) == IF v.t = "array" THEN Len(v.a) ELSE 0

\* Math.round(x * 100) of a number in thousandths: halves round up
RoundPercent(n) == (n + 5) \div 10

\* array.slice(0, n)
Slice(a, n) == SubSeq(a, 1, IF Len(a) < n THEN Len(a) ELSE n)

-----------------------------------------------------------------------------
(* The texts and the wire values of the conversation *)

FallbackAnswer ==
    "No documents found matching your query. Please upload documents to get started."
ErrorText ==
    "An error occurred while processing your query. Please try again."
AgentId == "6909a9b15d0b2c2413178b1e"
FollowUpLimit == 3

RefundQuery == "What is the refund policy?"
QueryTexts == {"", "   ", RefundQuery}

\* String.prototype.trim on the texts of the model
Trim(s) == IF s \in {"", " ", "   "} THEN "" ELSE s

\* JSON.parse on the texts a string-valued response takes in the model:
\* the value, or thrown (a SyntaxError)
JSONParse_Lenient(text) ==
    CASE text = "null"  -> [thrown |-> FALSE, v |-> Null]
      [] text = "5"     -> [thrown |-> FALSE, v |-> Num(5000)]
      [] text = "true"  -> [thrown |-> FALSE, v |-> Bool(TRUE)]
      [] text = "\"30 days\"" -> [thrown |-> FALSE, v |-> Str("30 days")]
      [] text = "[]"    -> [thrown |-> FALSE, v |-> Arr(<< >>)]
      [] text = "{}"    -> [thrown |-> FALSE, v |-> Obj([x \in {} |-> Null])]
      [] text = "{\"answer\":\"30 days\"}"
                        -> [thrown |-> FALSE, v |-> Obj([answer |-> Str("30 days")])]
      [] OTHER          -> [thrown |-> FALSE, v |-> Obj([x \in {} |-> Null])]
JSONParse(text) ==
    CASE text = "null"  -> [thrown |-> FALSE, v |-> Null]
      [] text = "5"     -> [thrown |-> FALSE, v |-> Num(5000)]
      [] text = "true"  -> [thrown |-> FALSE, v |-> Bool(TRUE)]
      [] text = "\"30 days\"" -> [thrown |-> FALSE, v |-> Str("30 days")]
      [] text = "[]"    -> [thrown |-> FALSE, v |-> Arr(<< >>)]
      [] text = "{}"    -> [thrown |-> FALSE, v |-> Obj([x \in {} |-> Null])]
      [] text = "{\"answer\":\"30 days\"}"
                        -> [thrown |-> FALSE, v |-> Obj([answer |-> Str("30 days")])]
      [] OTHER          -> [thrown |-> TRUE, v |-> Undefined]

ResponseTexts ==
    {"", "{answer:", "null", "5", "true", "\"30 days\"", "[]", "{}",
     "{\"answer\":\"30 days\"}"}

\* what the fetch and response.json() can come to
Rejected    == [kind |-> "reject", data |-> Undefined]  \* fetch rejects
NotJson     == [kind |-> "notjson", data |-> Undefined] \* response.json() rejects
Json(data)  == [kind |-> "json", data |-> data]         \* the body, decoded

\* the values the server gives the recognised fields in the model
TermsCitation ==
    Obj([document_name |-> Str("terms.pdf"), page_number |-> Num(4000),
         excerpt |-> Str("..."), relevance_score |-> Num(900)])
Suggestions ==
    Arr(<< Str("And for sale items?"), Str("Who pays return shipping?"),
           Str("   "), Str("Is there a restocking fee?") >>)
FullMetadata ==
    Obj([search_queries_used |-> Arr(<< Str("refund policy") >>),
         total_passages_retrieved |-> Num(7000),
         processing_time |-> Str("1.2s")])
ServerValue ==
    [answer |-> Str("30 days"),
     citations |-> Arr(<< TermsCitation >>),
     documents_referenced |-> Arr(<< Str("terms.pdf") >>),
     confidence |-> Num(825),
     follow_up_suggestions |-> Suggestions,
     metadata |-> FullMetadata]

TopFields == DOMAIN ServerValue
MetaFields == DOMAIN FullMetadata.o

Pick(rec, S) == [k \in S |-> rec[k]]

\* the parsed responses of the model: every subset of the optional fields,
\* every subset of the sub-fields of metadata, fields present but null or
\* empty
ParsedResponses ==
    { Obj(Pick(ServerValue, S)) : S \in SUBSET TopFields }
    \cup { Obj([metadata |-> Obj(Pick(FullMetadata.o, M))]) : M \in SUBSET MetaFields }
    \cup { Obj([k \in TopFields |-> Null]),
           Obj([answer |-> Str(""), confidence |-> Num(0)]) }

SuccessValues == {Undefined, Bool(FALSE), Bool(TRUE)}

\* a body { success, response }, a field left out where its value is undefined
Body(success, response) ==
    Obj([k \in { x \in {"success", "response"} :
                   (IF x = "success" THEN success ELSE response) # Undefined }
           |-> IF k = "success" THEN success ELSE response])

\* the responses that are not an object, and three that are
PlainResponses ==
    {Undefined, Null} \cup { Str(x) : x \in ResponseTexts }
    \cup { Obj([x \in {} |-> Null]), Obj([answer |-> Str("30 days")]),
           Obj(ServerValue) }

\* every reply shape: each success value with each plain response, and
\* success true with each parsed response
AllReplies ==
    {Rejected, NotJson, Json(Null), Json(Num(5000)), Json(Str("ok"))}
    \cup { Json(Body(s, r)) : s \in SuccessValues, r \in PlainResponses }
    \cup { Json(Body(Bool(TRUE), r)) : r \in ParsedResponses }

\* the replies of the conversation model: one of each outcome
CoreReplies ==
    {Rejected, NotJson, Json(Body(Bool(FALSE), Undefined)),
     Json(Body(Bool(TRUE), Str("{answer:"))),
     Json(Body(Bool(TRUE), Str("null"))),
     Json(Body(Bool(TRUE), Str("5"))),
     Json(Body(Bool(TRUE), Obj(ServerValue)))}

-----------------------------------------------------------------------------
(* Conversation: handleQuery *)

\* new Date().toLocaleTimeString(): the second of the reading
LocaleTime(t) == t \div 1000

\* the message id `msg-${n}` is held as n

\* if (!query.trim() || loading) return
Rejects_IgnoringLoading(q, l) == Trim(q) = ""
Rejects(q, l) == Trim(q) = "" \/ l

\* setChatMessages(prev => [...prev, message])
AppendMessage_Replacing(msgs, m) == IF msgs = << >> THEN << m >> ELSE [msgs EXCEPT ![Len(msgs)] = m]
AppendMessage(msgs, m) == Append(msgs, m)

UserMessage(q) ==
    [id |-> now, type |-> "user", content |-> Str(q), response |-> Undefined,
     timestamp |-> LocaleTime(now)]

\* handleQuery up to its await fetch(...)
HandleQuery(limit) ==
    IF Rejects(query, loading)
    THEN /\ lastSubmit' = IF Trim(query) = "" THEN "empty" ELSE "busy"
         /\ UNCHANGED << chatMessages, query, loading, inflight, issued,
                         delivered, now >>
         /\ UNCHANGED docVars
    ELSE /\ Len(delivered) < limit
         /\ chatMessages' = AppendMessage(chatMessages, UserMessage(query))
         /\ query' = ""
         /\ loading' = TRUE
         /\ inflight' = Append(inflight, [message |-> query, agent_id |-> AgentId])
         /\ issued' = issued + 1
         /\ lastSubmit' = "accepted"
         /\ UNCHANGED << delivered, now >>
         /\ UNCHANGED docVars

\* the initial agentResponse
DefaultResponse ==
    Obj([answer |-> Str(FallbackAnswer),
         citations |-> Arr(<< >>),
         documents_referenced |-> Arr(<< >>),
         confidence |-> Num(0),
         follow_up_suggestions |-> Arr(<< >>),
         metadata |-> Obj([search_queries_used |-> Arr(<< >>),
                           total_passages_retrieved |-> Num(0),
                           processing_time |-> Str("0s")])])

\* if (data.success && data.response), for a data that is not null
UsesResponse_Either(data) ==
    Truthy(Get(data, "success")) \/ Truthy(Get(data, "response"))
UsesResponse(data) ==
    Truthy(Get(data, "success")) /\ Truthy(Get(data, "response"))

\* typeof data.response === 'string' ? JSON.parse(data.response) : data.response
ParseResponse(response) ==
    IF response.t = "string"
    THEN JSONParse(response.s)
    ELSE [thrown |-> FALSE, v |-> response]

\* agentResponse = { answer: parsedResponse.answer ?? agentResponse.answer, ... }
MergeResponse(parsed) ==
    Obj([k \in TopFields |-> Coalesce(Get(parsed, k), DefaultResponse.o[k])])

Thrown == [thrown |-> TRUE, v |-> Undefined]

\* the try block from the settled fetch to agentResponse: thrown, or the value
BuildAgentResponse(reply) ==
    IF reply.kind # "json" THEN Thrown
    ELSE IF IsNullish(reply.data) THEN Thrown        \* data.success of null
    ELSE IF ~UsesResponse(reply.data)
         THEN [thrown |-> FALSE, v |-> DefaultResponse]
    ELSE LET p == ParseResponse(Get(reply.data, "response"))
         IN  IF p.thrown THEN Thrown
             ELSE IF IsNullish(p.v) THEN Thrown      \* parsedResponse.answer of null
             ELSE [thrown |-> FALSE, v |-> MergeResponse(p.v)]

AgentMessage(agentResponse) ==
    [id |-> now + 1, type |-> "agent", content |-> agentResponse.o.answer,
     response |-> agentResponse, timestamp |-> LocaleTime(now)]

ErrorMessage ==
    [id |-> now + 1, type |-> "agent", content |-> Str(ErrorText),
     response |-> Undefined, timestamp |-> LocaleTime(now)]

\* finally { setLoading(false) }
LoadingAfter_SuccessOnly(r) == r.thrown
LoadingAfter(r) == FALSE

\* the continuation of handleQuery after its awaits: try, catch, finally
ResponseArrives(j, reply) ==
    /\ j \in DOMAIN inflight
    /\ LET r == BuildAgentResponse(reply)
       IN  /\ chatMessages' =
                AppendMessage(chatMessages,
                              IF r.thrown THEN ErrorMessage ELSE AgentMessage(r.v))
           /\ loading' = LoadingAfter(r)
    /\ inflight' = SubSeq(inflight, 1, j - 1) \o SubSeq(inflight, j + 1, Len(inflight))
    /\ delivered' = Append(delivered, reply)
    /\ UNCHANGED << query, issued, lastSubmit, now >>
    /\ UNCHANGED docVars

\* disabled={loading || documents.length === 0} on the query input
InputEnabled == ~loading /\ Len(documents) > 0

\* onChange={e => setQuery(e.target.value)}
TypeQuery(text) ==
    /\ InputEnabled
    /\ query' = text
    /\ UNCHANGED << chatMessages, loading, inflight, issued, delivered,
                    lastSubmit, now >>
    /\ UNCHANGED docVars

-----------------------------------------------------------------------------
(* Rendering of an agent message that carries a response *)

CitationChips(response) ==
    LET c == Get(response, "citations")
    IN  IF Truthy(c) /\ Length(c) > 0
        THEN [ i \in 1..Length(c) |->
                 [name |-> Get(c.a[i], "document_name"),
                  page |-> Get(c.a[i], "page_number")] ]
        ELSE << >>

FollowUpButtons(response) ==
    LET f == Get(response, "follow_up_suggestions")
    IN  IF Truthy(f) /\ Length(f) > 0 THEN Slice(f.a, FollowUpLimit) ELSE << >>

ConfidencePercent(response) ==
    RoundPercent(Coalesce(Get(response, "confidence"), Num(0)).n)

DocumentsCount(response) ==
    LET d == Get(response, "documents_referenced")
    IN  IF IsNullish(d) THEN 0 ELSE Length(d)

PassagesShown(response) ==
    Coalesce(OptGet(Get(response, "metadata"), "total_passages_retrieved"), Num(0))

ProcessingShown(response) ==
    Coalesce(OptGet(Get(response, "metadata"), "processing_time"), Str("0s"))

\* what the card of a message shows below its content; nothing for a message
\* without a response
View(m) ==
    IF ~Truthy(m.response)
    THEN [shown |-> FALSE]
    ELSE [shown |-> TRUE,
          chips |-> CitationChips(m.response),
          confidence |-> ConfidencePercent(m.response),
          documents |-> DocumentsCount(m.response),
          passages |-> PassagesShown(m.response),
          followUps |-> FollowUpButtons(m.response),
          processing |-> ProcessingShown(m.response)]

\* onClick={() => handleFollowUp(suggestion)} on a follow-up button
HandleFollowUp(k, n) ==
    /\ k \in DOMAIN chatMessages
    /\ Truthy(chatMessages[k].response)
    /\ LET buttons == FollowUpButtons(chatMessages[k].response)
       IN  /\ n \in DOMAIN buttons
           /\ query' = buttons[n].s
    /\ UNCHANGED << chatMessages, loading, inflight, issued, delivered,
                    lastSubmit, now >>
    /\ UNCHANGED docVars

-----------------------------------------------------------------------------
(* The clock *)

\* Date.now() moves on by a millisecond, or by a timer period
AdvanceClock(d) ==
    /\ \/ d = 1 /\ now % IntervalMs < MaxJitter
       \/ d = IntervalMs /\ now \div IntervalMs < MaxIntervals
    /\ now' = now + d
    /\ UNCHANGED docVars
    /\ UNCHANGED chatVars

-----------------------------------------------------------------------------
(* Specifications *)

Init ==
    /\ documents = << >>
    /\ chatMessages = << >>
    /\ query = ""
    /\ loading = FALSE
    /\ uploadingFiles = EmptyMap
    /\ deleteConfirm = NoId
    /\ invocations = << >>
    /\ inflight = << >>
    /\ now = 0
    /\ issued = 0
    /\ delivered = << >>
    /\ lastSubmit = "none"
    /\ removed = 0

\* the document registry alone
NextDocs ==
    \/ \E files \in FileLists : HandleFileSelect(files)
    \/ \E i \in DOMAIN invocations, inc \in RandomIncrements : ProgressTick(i, inc)
    \/ \E i \in DOMAIN invocations, p \in PageChoices : CompleteUpload(i, p)
    \/ \E k \in DOMAIN documents : RequestDelete(k)
    \/ HandleDeleteDocument
    \/ CancelDelete
    \/ AdvanceClock(IntervalMs)

SpecDocs == Init /\ [][NextDocs]_vars

\* the registry once a.pdf has been selected at 0 and its upload completed at
\* 2000: a state SpecDocs reaches, from which the conversation is explored
OneDocumentLoaded ==
    /\ documents = << [id |-> FileId("a.pdf", 0), name |-> "a.pdf",
                       size |-> 1048576, pages |-> MinPages,
                       uploadDate |-> 0] >>
    /\ uploadingFiles = EmptyMap
    /\ deleteConfirm = NoId
    /\ invocations = << Finished >>
    /\ removed = 0
    /\ now = ProcessingMs

InitChat ==
    /\ OneDocumentLoaded
    /\ chatMessages = << >>
    /\ query = ""
    /\ loading = FALSE
    /\ inflight = << >>
    /\ issued = 0
    /\ delivered = << >>
    /\ lastSubmit = "none"

\* the conversation, with one reply of each outcome
NextChat ==
    \/ \E text \in QueryTexts : TypeQuery(text)
    \/ \E k \in DOMAIN chatMessages, n \in 1..FollowUpLimit : HandleFollowUp(k, n)
    \/ HandleQuery(MaxQueries)
    \/ \E j \in DOMAIN inflight, reply \in CoreReplies : ResponseArrives(j, reply)
    \/ AdvanceClock(1)

SpecChat == InitChat /\ [][NextChat]_vars

\* the handling of a reply, with every reply shape
NextReply ==
    \/ \E text \in QueryTexts : TypeQuery(text)
    \/ HandleQuery(MaxReplyQueries)
    \/ \E j \in DOMAIN inflight, reply \in AllReplies : ResponseArrives(j, reply)
    \/ AdvanceClock(1)

SpecReply == InitChat /\ [][NextReply]_vars

\* the replies of the page model: a failure, the fallback and a full answer
PageReplies ==
    {Rejected, Json(Body(Bool(FALSE), Undefined)),
     Json(Body(Bool(TRUE), Obj(ServerValue)))}

\* the registry and the conversation together, from the empty page: uploads,
\* deletes, queries, follow-ups and replies interleave
NextPage ==
    \/ /\ Len(invocations) < MaxPageSelections
       /\ \E f \in Files : HandleFileSelect(<< f >>)
    \/ \E i \in DOMAIN invocations, inc \in RandomIncrements : ProgressTick(i, inc)
    \/ \E i \in DOMAIN invocations : CompleteUpload(i, MinPages)
    \/ \E k \in DOMAIN documents : RequestDelete(k)
    \/ HandleDeleteDocument
    \/ CancelDelete
    \/ TypeQuery(RefundQuery)
    \/ \E k \in DOMAIN chatMessages, n \in 1..FollowUpLimit : HandleFollowUp(k, n)
    \/ HandleQuery(MaxPageQueries)
    \/ \E j \in DOMAIN inflight, reply \in PageReplies : ResponseArrives(j, reply)
    \/ /\ now \div IntervalMs < MaxPageIntervals
       /\ AdvanceClock(IntervalMs)

SpecPage == Init /\ [][NextPage]_vars

\* the whole page
Next ==
    \/ NextDocs
    \/ NextChat

Spec == Init /\ [][Next]_vars

-----------------------------------------------------------------------------
(* Properties of the document registry *)

\* C4: every pending upload's progress lies in 0..90 before its completion.
C4_ProgressWithinCap ==
    \A id \in DOMAIN uploadingFiles : uploadingFiles[id] \in 0..ProgressCap

\* C5: no two Documents in the list share an id.
C5_DocumentIdsUnique ==
    \A i, j \in DOMAIN documents :
        i # j => documents[i].id # documents[j].id

KeptPositions(docs, id) == { i \in DOMAIN docs : docs[i].id # id }

\* new is old without the documents whose id is id, the others in their order
IsRemovalOf(old, new, id) ==
    /\ Len(new) = Cardinality(KeptPositions(old, id))
    /\ \A i \in DOMAIN new :
         \E p \in KeptPositions(old, id) :
            /\ Cardinality({ q \in KeptPositions(old, id) : q <= p }) = i
            /\ new[i] = old[p]

\* C6: a delete request only records the pending id, which is the id of a
\* listed document; the list loses documents only in a step that starts with
\* a pending id, removes exactly the documents with that id, keeps the others
\* in their order and clears the pending id; a step that clears the pending
\* id otherwise leaves the list alone; any other change of the list keeps
\* every listed document.
C6_TwoStepDelete ==
    [][ /\ (deleteConfirm' # deleteConfirm /\ deleteConfirm' # NoId)
            => /\ documents' = documents
               /\ \E k \in DOMAIN documents : documents[k].id = deleteConfirm'
        /\ (documents' # documents /\ Len(documents') <= Len(documents))
            => /\ deleteConfirm # NoId
               /\ IsRemovalOf(documents, documents', deleteConfirm)
               /\ Len(documents') < Len(documents)
               /\ deleteConfirm' = NoId
        /\ Len(documents') > Len(documents)
            => Tail(documents') = documents
      ]_vars

\* a document was requested, confirmed and removed, and others stayed
C6_Witness ==
    /\ removed = 1
    /\ Len(documents) >= 2
    /\ deleteConfirm = NoId

\* C9: a progress entry is created at 0 when an upload with that id starts,
\* never decreases while it exists, is removed only in the step that inserts
\* the Document with that id at the head of the list, and is never created
\* for an id that is already a listed Document.
C9_ProgressEntryLifetime ==
    [][ /\ \A id \in (DOMAIN uploadingFiles') \ (DOMAIN uploadingFiles) :
             /\ uploadingFiles'[id] = 0
             /\ \E i \in DOMAIN invocations' :
                  /\ invocations'[i].fileId = id
                  /\ invocations'[i].ticks = 0
             /\ \A k \in DOMAIN documents' : documents'[k].id # id
        /\ \A id \in (DOMAIN uploadingFiles') \cap (DOMAIN uploadingFiles) :
             uploadingFiles'[id] >= uploadingFiles[id]
        /\ \A id \in (DOMAIN uploadingFiles) \ (DOMAIN uploadingFiles') :
             /\ Len(documents') = Len(documents) + 1
             /\ Head(documents').id = id
        /\ Len(documents') > Len(documents)
             => /\ Tail(documents') = documents
                /\ Head(documents').id \in DOMAIN uploadingFiles
                /\ Head(documents').id \notin DOMAIN uploadingFiles'
      ]_vars

-----------------------------------------------------------------------------
(* Properties of the conversation *)

UserCount(msgs) == Cardinality({ i \in DOMAIN msgs : msgs[i].type = "user" })

\* C1: a submission made while the query is blank or a request is in flight
\* appends no user message and issues no request, and at most one request is
\* outstanding at any time.
C1_SingleFlight ==
    /\ [](Len(inflight) <= 1)
    /\ [][ (loading \/ query \in {"", "   "})
             => /\ issued' = issued
                /\ UserCount(chatMessages') = UserCount(chatMessages)
                /\ Len(inflight') <= Len(inflight)
         ]_vars

\* a non-blank query (put there by a follow-up button) was submitted while the
\* request was in flight, and was ignored
C1_Witness ==
    /\ lastSubmit = "busy"
    /\ loading
    /\ Len(inflight) = 1
    /\ query # ""

\* C2: the in-flight flag is set exactly while a request is outstanding; an
\* accepted query starts idle, appends its user message, sets the flag and
\* issues one request; the settling of the request, by a reply or a failure,
\* appends exactly one agent message right after that user message and
\* clears the flag; the flag changes in no other step.
C2_QueryLifecycle ==
    /\ [](loading <=> inflight # << >>)
    /\ [][ /\ issued' # issued
               => /\ ~loading /\ loading'
                  /\ issued' = issued + 1
                  /\ Len(chatMessages') = Len(chatMessages) + 1
                  /\ SubSeq(chatMessages', 1, Len(chatMessages)) = chatMessages
                  /\ chatMessages'[Len(chatMessages')].type = "user"
                  /\ chatMessages'[Len(chatMessages')].content = Str(query)
                  /\ inflight' = << [message |-> query, agent_id |-> AgentId] >>
           /\ delivered' # delivered
               => /\ loading /\ ~loading'
                  /\ Len(chatMessages') = Len(chatMessages) + 1
                  /\ SubSeq(chatMessages', 1, Len(chatMessages)) = chatMessages
                  /\ chatMessages'[Len(chatMessages')].type = "agent"
                  /\ chatMessages[Len(chatMessages)].type = "user"
                  /\ chatMessages[Len(chatMessages)].content
                        = Str(inflight[1].message)
                  /\ inflight' = << >>
           /\ loading' # loading
               => (issued' # issued \/ delivered' # delivered)
         ]_vars

\* a query that failed and a query that was answered both came back to idle
C2_Witness ==
    /\ ~loading
    /\ Len(delivered) = 2
    /\ delivered[1] = Rejected
    /\ delivered[2].kind = "json"
    /\ Len(chatMessages) = 4
    /\ chatMessages[4].type = "agent"

\* the agent turn of the k-th reply
AgentTurn(k) == chatMessages[2 * k]

IsErrorTurn(m) ==
    /\ m.type = "agent"
    /\ m.content = Str(ErrorText)
    /\ m.response = Undefined

\* a reply whose body is an object with success true and a non-empty string
\* as response
HasResponseText(reply) ==
    /\ reply.kind = "json"
    /\ reply.data.t = "object"
    /\ DOMAIN reply.data.o = {"success", "response"}
    /\ reply.data.o.success = Bool(TRUE)
    /\ reply.data.o.response.t = "string"
    /\ reply.data.o.response.s # ""

ResponseText(reply) == reply.data.o.response.s

\* the response texts of the model, by what they are as JSON
InvalidJsonTexts == {"{answer:"}
NullJsonTexts == {"null"}
PrimitiveJsonTexts == {"5", "true", "\"30 days\""}

\* the failures as the claim lists them: a rejected fetch, a body that is not
\* JSON, a string response that is not valid JSON or does not decode to an
\* object (an array counted as an object)
ListedFailure(reply) ==
    \/ reply.kind \in {"reject", "notjson"}
    \/ /\ HasResponseText(reply)
       /\ ResponseText(reply) \in
            InvalidJsonTexts \cup NullJsonTexts \cup PrimitiveJsonTexts

\* C3 as stated: every listed failure, a string response that decodes to a
\* number, a boolean or a string among them, gives the fixed error turn.
C3_AsStated ==
    \A k \in DOMAIN delivered :
        (2 * k <= Len(chatMessages) /\ ListedFailure(delivered[k]))
            => IsErrorTurn(AgentTurn(k))

DecodesToNull(reply) ==
    HasResponseText(reply) /\ ResponseText(reply) \in NullJsonTexts

DecodesToPrimitive(reply) ==
    HasResponseText(reply) /\ ResponseText(reply) \in PrimitiveJsonTexts

NotValidJson(reply) ==
    HasResponseText(reply) /\ ResponseText(reply) \in InvalidJsonTexts

AllDefaults ==
    Obj([answer |-> Str(FallbackAnswer),
         citations |-> Arr(<< >>),
         documents_referenced |-> Arr(<< >>),
         confidence |-> Num(0),
         follow_up_suggestions |-> Arr(<< >>),
         metadata |-> Obj([search_queries_used |-> Arr(<< >>),
                           total_passages_retrieved |-> Num(0),
                           processing_time |-> Str("0s")])])

IsFallbackTurn(m) ==
    /\ m.type = "agent"
    /\ m.content = Str(FallbackAnswer)
    /\ m.response = AllDefaults

\* C3, amended: a rejected fetch, a body that is not JSON, and a string
\* response (of a reply with success true) that is not valid JSON or decodes
\* to null give the fixed error turn with no response; a string response that
\* decodes to a number, a boolean or a string gives the fallback turn with
\* the default response; the settling of a request clears the flag, appends
\* one message and issues no request.
C3_FailureTurn ==
    /\ [](\A k \in DOMAIN delivered :
            /\ 2 * k <= Len(chatMessages)
            /\ (\/ delivered[k].kind \in {"reject", "notjson"}
                \/ NotValidJson(delivered[k])
                \/ DecodesToNull(delivered[k]))
                  => IsErrorTurn(AgentTurn(k))
            /\ DecodesToPrimitive(delivered[k]) => IsFallbackTurn(AgentTurn(k)))
    /\ [][ delivered' # delivered
             => /\ issued' = issued
                /\ inflight' = << >>
                /\ ~loading'
                /\ Len(chatMessages') = Len(chatMessages) + 1
         ]_vars

\* a string response that is not valid JSON was answered by the error turn
C3_Witness ==
    /\ ~loading
    /\ Len(delivered) >= 1
    /\ delivered[1] = Json(Body(Bool(TRUE), Str("{answer:")))
    /\ IsErrorTurn(AgentTurn(1))

\* the body is an object whose success is false or absent, or whose response
\* is absent or null
NoUsableResponse(reply) ==
    /\ reply.kind = "json"
    /\ reply.data.t = "object"
    /\ \/ "success" \notin DOMAIN reply.data.o
       \/ reply.data.o.success = Bool(FALSE)
       \/ "response" \notin DOMAIN reply.data.o
       \/ reply.data.o.response = Null

NothingShown ==
    [shown |-> TRUE, chips |-> << >>, confidence |-> 0, documents |-> 0,
     passages |-> Num(0), followUps |-> << >>, processing |-> Str("0s")]

\* C7: a reply with success false or no response gives the agent turn with
\* the fixed fallback answer and the all-default response, which shows no
\* citation, 0% confidence, 0 documents, 0 passages, "0s" and no follow-up.
C7_FallbackOnNoResponse ==
    \A k \in DOMAIN delivered :
        (2 * k <= Len(chatMessages) /\ NoUsableResponse(delivered[k]))
            => /\ IsFallbackTurn(AgentTurn(k))
               /\ View(AgentTurn(k)) = NothingShown

\* { success: false } with a full response object was answered by the fallback
C7_Witness ==
    /\ Len(delivered) = 1
    /\ delivered[1] = Json(Body(Bool(FALSE), Obj(ServerValue)))
    /\ Len(chatMessages) = 2
    /\ IsFallbackTurn(chatMessages[2])

\* a reply with success true whose response is an object
HasResponseObject(reply) ==
    /\ reply.kind = "json"
    /\ reply.data.t = "object"
    /\ DOMAIN reply.data.o = {"success", "response"}
    /\ reply.data.o.success = Bool(TRUE)
    /\ reply.data.o.response.t = "object"

\* a field of an object that is there and not null
Has(obj, k) == k \in DOMAIN obj.o /\ obj.o[k] # Null

\* C8 as stated, a null field read as an omitted one: in the response kept
\* with the agent turn every omitted field, the sub-fields of metadata among
\* them, has its default, and every present field the server's value.
C8_AsStated ==
    \A k \in DOMAIN delivered :
        (2 * k <= Len(chatMessages) /\ HasResponseObject(delivered[k]))
            => LET p == delivered[k].data.o.response
                   r == AgentTurn(k).response
               IN  /\ \A f \in TopFields \ {"metadata"} :
                        r.o[f] = IF Has(p, f) THEN p.o[f] ELSE AllDefaults.o[f]
                   /\ \A g \in MetaFields :
                        Get(r.o.metadata, g) =
                          IF Has(p, "metadata") /\ Has(p.o.metadata, g)
                          THEN p.o.metadata.o[g]
                          ELSE AllDefaults.o.metadata.o[g]

\* C8, amended: each of the six top-level fields that is absent or null has
\* its default in the kept response, and each other one the server's value,
\* metadata as a whole (a metadata that is present is kept as sent, its
\* omitted sub-fields staying absent); the card shows 0 passages and "0s"
\* for an omitted total_passages_retrieved and processing_time, the rounded
\* percentage of the kept confidence, the length of the kept
\* documents_referenced, one chip per kept citation and the first three kept
\* follow-ups; a response with no field shows 0%, 0 documents, 0 passages,
\* "0s", no chip and no follow-up.
C8_Defaulting ==
    \A k \in DOMAIN delivered :
        (2 * k <= Len(chatMessages) /\ HasResponseObject(delivered[k]))
            => LET p == delivered[k].data.o.response
                   r == AgentTurn(k).response
                   v == View(AgentTurn(k))
               IN  /\ AgentTurn(k).type = "agent"
                   /\ DOMAIN r.o = TopFields
                   /\ \A f \in TopFields :
                        r.o[f] = IF Has(p, f) THEN p.o[f] ELSE AllDefaults.o[f]
                   /\ AgentTurn(k).content = r.o.answer
                   /\ v.shown
                   /\ v.passages =
                        IF Has(p, "metadata") /\ Has(p.o.metadata, "total_passages_retrieved")
                        THEN p.o.metadata.o.total_passages_retrieved
                        ELSE Num(0)
                   /\ v.processing =
                        IF Has(p, "metadata") /\ Has(p.o.metadata, "processing_time")
                        THEN p.o.metadata.o.processing_time
                        ELSE Str("0s")
                   /\ 10 * v.confidence - 5 <= r.o.confidence.n
                   /\ r.o.confidence.n < 10 * v.confidence + 5
                   /\ (~Has(p, "confidence")) => (v.confidence = 0)
                   /\ v.documents = Len(r.o.documents_referenced.a)
                   /\ Len(v.chips) = Len(r.o.citations.a)
                   /\ Len(v.followUps) <= 3
                   /\ \A n \in DOMAIN v.followUps :
                        v.followUps[n] = r.o.follow_up_suggestions.a[n]
                   /\ (DOMAIN p.o = {}) => (v = NothingShown)

\* a response whose metadata holds processing_time alone was answered: the
\* kept metadata has no total_passages_retrieved, the card shows 0 passages
C8_Witness ==
    /\ Len(delivered) = 1
    /\ delivered[1] =
         Json(Body(Bool(TRUE), Obj([metadata |-> Obj([processing_time |-> Str("1.2s")])])))
    /\ Len(chatMessages) = 2
    /\ Get(chatMessages[2].response.o.metadata, "total_passages_retrieved") = Undefined
    /\ View(chatMessages[2]).passages = Num(0)

\* C10: no two messages of the conversation share an id.
C10_MessageIdsUnique ==
    \A i, j \in DOMAIN chatMessages :
        i # j => chatMessages[i].id # chatMessages[j].id

-----------------------------------------------------------------------------
(* Properties of the message list *)

\* C11: every step leaves the message list as it is or adds one message at
\* its end; the messages already there keep their place, id, type, content,
\* response and timestamp, whatever the step is (upload, delete, follow-up,
\* query, reply).
C11_MessagesAppendOnly ==
    [][ \/ chatMessages' = chatMessages
        \/ /\ Len(chatMessages') = Len(chatMessages) + 1
           /\ SubSeq(chatMessages', 1, Len(chatMessages)) = chatMessages
      ]_vars

\* a second query was answered after the document it was asked about had
\* been deleted: four messages, the first two older than the deletion
C11_Witness ==
    /\ Len(chatMessages) = 4
    /\ chatMessages[1].type = "user"
    /\ chatMessages[2].type = "agent"
    /\ chatMessages[3].type = "user"
    /\ chatMessages[4].type = "agent"
    /\ removed >= 1
    /\ documents = << >>

-----------------------------------------------------------------------------
(* Properties of the file selection *)

\* the positions of a FileList whose file declares the PDF type
PdfPositions(files) == { i \in DOMAIN files : files[i].type = "application/pdf" }

\* C12: a selection holding no file of declared type application/pdf leaves
\* the document list and the progress map as they are and starts no timer,
\* however many such selections are made; a selection holding some starts
\* the upload of its first such file only (one progress entry at 0, one
\* timer), keeps exactly its files of that type to upload, in their order,
\* and adds no document in that step; every progress entry and every
\* document bears the name of a file of that type.
C12_NonPdfIgnored ==
    /\ [](/\ \A id \in DOMAIN uploadingFiles :
               \E f \in Files : f.name = id.name /\ f.type = "application/pdf"
          /\ \A k \in DOMAIN documents :
               \E f \in Files : /\ f.name = documents[k].name
                                /\ f.type = "application/pdf")
    /\ [][ \A files \in FileLists :
             HandleFileSelect(files)
               => LET pdfs == PdfPositions(files)
                      call == invocations'[Len(invocations')]
                  IN  /\ documents' = documents
                      /\ Len(invocations') = Len(invocations) + 1
                      /\ SubSeq(invocations', 1, Len(invocations)) = invocations
                      /\ Len(call.files) = Cardinality(pdfs)
                      /\ \A i \in DOMAIN call.files :
                           /\ call.files[i].type = "application/pdf"
                           /\ \E p \in pdfs :
                                /\ Cardinality({ q \in pdfs : q <= p }) = i
                                /\ call.files[i] = files[p]
                      /\ IF pdfs = {}
                         THEN /\ uploadingFiles' = uploadingFiles
                              /\ ~call.timer
                         ELSE /\ call.timer
                              /\ call.fileId = FileId(call.files[1].name, now)
                              /\ DOMAIN uploadingFiles' =
                                   (DOMAIN uploadingFiles) \cup {call.fileId}
                              /\ uploadingFiles'[call.fileId] = 0
                              /\ \A id \in (DOMAIN uploadingFiles) \ {call.fileId} :
                                   uploadingFiles'[id] = uploadingFiles[id]
         ]_vars

\* a selection without a PDF file returned with nothing started and nothing
\* listed, and the selection after it started one upload
C12_Witness ==
    /\ Len(invocations) = 2
    /\ invocations[1] = Finished
    /\ invocations[2].timer
    /\ Len(invocations[2].files) = 1
    /\ documents = << >>
    /\ removed = 0
    /\ Cardinality(DOMAIN uploadingFiles) = 1

=============================================================================
